---- MODULE Spec2Model ----
(***************************************************************************)
(* Project ORION sentinel: the sentry/intruder orchestrator of             *)
(* orion/main.py (class OrionSentinel) with the collaborators it drives:   *)
(* CameraManager and MicrophoneMonitor (modules/hardware.py),              *)
(* IntelligenceUnit (modules/ai_engine.py), VideoServer                    *)
(* (modules/web_server.py) and the timing constants of modules/config.py.  *)
(*                                                                         *)
(* The main loop (OrionSentinel.run) executes one sentry_loop or one       *)
(* intruder_loop per iteration.  The Flask threads (remote control,        *)
(* stream access), the per-alert background threads and the wall clock     *)
(* run concurrently with it and are separate actions.                      *)
(***************************************************************************)
EXTENDS Integers, Sequences, FiniteSets, TLC

(***************************************************************************)
(* Bounds of the model (not program constants).                            *)
(***************************************************************************)
\* first value of time.time() seen by the program (seconds)
StartTime == 1000
\* resolution of the modelled wall clock (seconds per clock step)
ClockStep == 31
\* the clock stops advancing at StartTime + MaxElapsed
MaxElapsed == 93
\* most iterations of the main loop followed per clock value
MaxTicks == 1
\* most alert threads alive at once
MaxThreads == 1
\* most alerts recorded in one run
MaxAlerts == 1
\* largest value same_threat_count is followed to
MaxSameCount == 3
\* what a run is followed to: b.ticks iterations of the main loop per clock
\* value (all of them when b.ticks = 0), b.alerts alerts, b.threads alert
\* threads at once, same_threat_count up to b.count
Bounds == [ticks |-> MaxTicks, alerts |-> MaxAlerts, threads |-> MaxThreads,
           count |-> MaxSameCount]

\* the scenario of one threat on every frame: clock resolution, length of the
\* run, fewest iterations of the main loop per clock value, most alerts and
\* largest same_threat_count followed
FineStep == 10
PersonHorizon == 39
PersonTicks == 3
PersonAlerts == 6
PersonCount == 20
PersonBounds == [ticks |-> PersonTicks + 1, alerts |-> PersonAlerts,
                 threads |-> PersonAlerts, count |-> PersonCount]
\* one INTRUDER episode with any threat labels: most iterations of the main
\* loop per clock value and most alerts followed
EpisodeTicks == 5
EpisodeAlerts == 4
EpisodeThreads == 2
EpisodeBounds == [ticks |-> EpisodeTicks, alerts |-> EpisodeAlerts,
                  threads |-> EpisodeThreads, count |-> MaxSameCount]
\* runs of frames without a threat: every iteration of the main loop
QuietBounds == [ticks |-> 0, alerts |-> MaxAlerts, threads |-> MaxThreads,
                count |-> MaxSameCount]

(***************************************************************************)
(* modules/config.py                                                       *)
(***************************************************************************)
MODE_SENTRY == "SENTRY"
MODE_INTRUDER == "INTRUDER"
ALERT_COOLDOWN == 30
STREAM_DURATION == 60
\* the names the TIMING CONFIGURATION section defines; main.py also reads
\* config.SENSOR_DEBOUNCE_SECONDS and config.STREAM_TIMEOUT, which no line
\* of config.py defines: reading them raises AttributeError
ConfigNames ==
  {"SENSOR_POLL_INTERVAL", "ALERT_COOLDOWN", "STREAM_DURATION", "HEARTBEAT_INTERVAL"}
\* getattr(config, name), for the names that exist and are compared with times
ConfigGet(name) ==
  CASE name = "ALERT_COOLDOWN" -> ALERT_COOLDOWN
    [] name = "STREAM_DURATION" -> STREAM_DURATION

\* OrionSentinel.__init__: self.NO_THREAT_FRAME_LIMIT
NO_THREAT_FRAME_LIMIT == 20

None == "None"

(***************************************************************************)
(* State.                                                                  *)
(***************************************************************************)
VARIABLES
  \* OrionSentinel
  mode, last_alert_time, last_sensor_event_time, intruder_start_time,
  current_triggered_sensors, remote_control_request, no_threat_frame_count,
  last_alert_threat, same_threat_count,
  \* CameraManager: the cv2.VideoCapture handle ("None", "open": isOpened(),
  \* "closed": created but the device did not open) and is_active
  camera, is_active,
  \* IntelligenceUnit.model_loaded: "unset" (no such attribute yet),
  \* "loaded" (True), "unloaded" (False)
  model_loaded,
  \* MicrophoneMonitor.is_active
  mic_is_active,
  \* VideoServer.last_stream_access
  last_stream_access,
  \* number of running _send_alert_async threads
  alert_threads,
  \* time.time()
  now,
  \* position of the main thread: "loop" (between two iterations of run),
  \* "enter_sentry" (inside enter_sentry_mode, mode already assigned),
  \* "sentry_remote" / "intruder_remote" (inside sentry_loop / intruder_loop,
  \* the mailbox tested and found to hold a request, not cleared yet),
  \* "crashed" (an exception left run: the process is gone), "stopped"
  \* (KeyboardInterrupt: shutdown has run)
  pc,
  \* history: the alerts dispatched, <<time, label>> each
  alert_log,
  \* history: the last step taken
  ev,
  \* history: the last mode-affecting event seen by a tick, and the request
  \* written to the mailbox since the last tick
  last_mode_event, fresh_request,
  \* history: the request that the latest write replaced, when more than one
  \* was written since the last tick
  overwritten,
  \* history: iterations of the main loop at the current clock value
  ticks_at_now,
  \* history: analysed frames without a qualifying threat, in a row, in the
  \* current INTRUDER episode
  no_threat_run,
  \* MicrophoneMonitor.current_level: the snapshot the sampler thread writes
  current_level,
  \* the wire-value mappings on their own: the values handed to them and
  \* what they returned
  wire

vars ==
  <<mode, last_alert_time, last_sensor_event_time, intruder_start_time,
    current_triggered_sensors, remote_control_request, no_threat_frame_count,
    last_alert_threat, same_threat_count, camera, is_active, model_loaded,
    mic_is_active, last_stream_access, alert_threads, now, pc, alert_log, ev,
    last_mode_event, fresh_request, overwritten, ticks_at_now, no_threat_run,
    current_level, wire>>

(***************************************************************************)
(* The fields a tick of the main loop reads and writes, as one record, so  *)
(* that the sequential code of a tick composes as functions.               *)
(***************************************************************************)
Self ==
  [mode |-> mode, last_alert_time |-> last_alert_time,
   last_sensor_event_time |-> last_sensor_event_time,
   intruder_start_time |-> intruder_start_time,
   current_triggered_sensors |-> current_triggered_sensors,
   remote_control_request |-> remote_control_request,
   no_threat_frame_count |-> no_threat_frame_count,
   last_alert_threat |-> last_alert_threat,
   same_threat_count |-> same_threat_count,
   camera |-> camera, is_active |-> is_active, model_loaded |-> model_loaded,
   alert_threads |-> alert_threads, pc |-> pc, alert_log |-> alert_log,
   branch |-> "none", exit |-> "none"]

Store(s) ==
  /\ mode' = s.mode
  /\ last_alert_time' = s.last_alert_time
  /\ last_sensor_event_time' = s.last_sensor_event_time
  /\ intruder_start_time' = s.intruder_start_time
  /\ current_triggered_sensors' = s.current_triggered_sensors
  /\ remote_control_request' = s.remote_control_request
  /\ no_threat_frame_count' = s.no_threat_frame_count
  /\ last_alert_threat' = s.last_alert_threat
  /\ same_threat_count' = s.same_threat_count
  /\ camera' = s.camera
  /\ is_active' = s.is_active
  /\ model_loaded' = s.model_loaded
  /\ alert_threads' = s.alert_threads
  /\ pc' = s.pc
  /\ alert_log' = s.alert_log

\* an exception that nothing catches: run() handles KeyboardInterrupt only
Raise(s, what) == [s EXCEPT !.pc = "crashed", !.branch = what]

(***************************************************************************)
(* modules/hardware.py: CameraManager                                      *)
(***************************************************************************)
\* initialize() without the `if not self.camera` test
camera_initialize_always(s, opens) ==
  [s EXCEPT !.camera = IF opens THEN "open" ELSE "closed", !.is_active = TRUE]

\* initialize(): `opens` is whether cv2.VideoCapture opened the device
camera_initialize(s, opens) ==
  IF s.camera = None
    THEN [s EXCEPT !.camera = IF opens THEN "open" ELSE "closed", !.is_active = TRUE]
    ELSE s

\* release() that leaves the device as it is
camera_release_kept(s) == s

camera_release(s) ==
  IF s.camera # None
    THEN [s EXCEPT !.camera = None, !.is_active = FALSE]
    ELSE s

\* capture_frame(): ret is True only for an opened device whose read succeeds
capture_frame(s, read_ok) == s.camera = "open" /\ read_ok

(***************************************************************************)
(* modules/ai_engine.py: IntelligenceUnit                                  *)
(***************************************************************************)
\* load_model(): a failure is caught and leaves model_loaded as it was
load_model(s, load_ok) ==
  IF load_ok THEN [s EXCEPT !.model_loaded = "loaded"] ELSE s

unload_model(s) == [s EXCEPT !.model_loaded = "unloaded"]

\* what the detector can report for a frame: <<label, confidence in percent>>
Labels == {"person", "car"}
Detections ==
  {<<"person", 90>>, <<"car", 90>>, <<"person", 40>>, <<"unknown", 0>>, <<None, 0>>}

\* analyze_frame(): (None, 0.0) without a model, else the detector's answer
analyze_frame(s, det) == IF s.model_loaded = "loaded" THEN det ELSE <<None, 0>>

(***************************************************************************)
(* orion/main.py: OrionSentinel                                            *)
(***************************************************************************)
\* enter_sentry_mode(), its first statement: self.mode = MODE_SENTRY.  The
\* rest of the method is the action enter_sentry_mode below.
enter_sentry_mode_begin(s, why) ==
  [s EXCEPT !.mode = MODE_SENTRY, !.pc = "enter_sentry", !.exit = why]

\* enter_intruder_mode that also stamps the debounce time
enter_intruder_mode_stamps_sensor(s, t, triggered_sensors, opens, load_ok) ==
  LET s1 == [s EXCEPT !.mode = MODE_INTRUDER, !.last_sensor_event_time = t]
      s2 == IF ~s1.is_active THEN camera_initialize(s1, opens) ELSE s1
      s3 == [s2 EXCEPT !.no_threat_frame_count = 0]
      s4 == load_model(s3, load_ok)
  IN  [s4 EXCEPT !.current_triggered_sensors = triggered_sensors,
                 !.intruder_start_time = t]

\* enter_intruder_mode that also starts the repeat counter afresh
enter_intruder_mode_resets_count(s, t, triggered_sensors, opens, load_ok) ==
  LET s1 == [s EXCEPT !.mode = MODE_INTRUDER, !.same_threat_count = 0,
                      !.last_alert_threat = None]
      s2 == IF ~s1.is_active THEN camera_initialize(s1, opens) ELSE s1
      s3 == [s2 EXCEPT !.no_threat_frame_count = 0]
      s4 == load_model(s3, load_ok)
  IN  [s4 EXCEPT !.current_triggered_sensors = triggered_sensors,
                 !.intruder_start_time = t]

\* enter_intruder_mode(trigger_type, triggered_sensors) called at time t
enter_intruder_mode(s, t, triggered_sensors, opens, load_ok) ==
  LET s1 == [s EXCEPT !.mode = MODE_INTRUDER]
      s2 == IF ~s1.is_active THEN camera_initialize(s1, opens) ELSE s1
      s3 == [s2 EXCEPT !.no_threat_frame_count = 0]
      s4 == load_model(s3, load_ok)
  IN  [s4 EXCEPT !.current_triggered_sensors = triggered_sensors,
                 !.intruder_start_time = t]

\* intruder_loop, line 242: a repeat within the cooldown is still sent
RepeatAllowedUpTo3(count) == count <= 3

RepeatAllowedOnce(count) == count <= 1

RepeatAllowed(count) == count <= 2

\* intruder_loop, lines 259-264, if it started two threads for an alert
ThreadStartTwice(threads) == threads + 2

\* intruder_loop, lines 259-264: one background thread per alert
ThreadStart(threads) == threads + 1

\* intruder_loop, lines 236-267: the alert decision for a qualifying threat
AlertDecision(s, t, threat) ==
  LET within == s.last_alert_threat = threat
                /\ (t - s.last_alert_time) < ConfigGet("ALERT_COOLDOWN")
      count == IF within THEN s.same_threat_count + 1 ELSE 1
      send_alert == IF within THEN RepeatAllowed(count) ELSE TRUE
      s1 == [s EXCEPT !.same_threat_count = count]
  IN  IF send_alert
        THEN [s1 EXCEPT !.alert_threads = ThreadStart(@),
                        !.alert_log = Append(@, <<t, threat>>),
                        !.last_alert_time = t,
                        !.last_alert_threat = threat,
                        !.branch = "alert"]
        ELSE [s1 EXCEPT !.branch = "suppressed"]

\* intruder_loop, lines 285-288: the stream-duration timeout
StreamTimeout(s, t) ==
  IF s.intruder_start_time # 0
     /\ t - s.intruder_start_time > ConfigGet("STREAM_DURATION")
    THEN enter_sentry_mode_begin(s, "timeout")
    ELSE s

\* intruder_loop, line 277
LimitExceeded(s) == s.no_threat_frame_count > NO_THREAT_FRAME_LIMIT

LimitReached(s) == s.no_threat_frame_count >= NO_THREAT_FRAME_LIMIT

\* intruder_loop, lines 276-283: the no-threat frame limit
NoThreatLimit(s) ==
  IF LimitReached(s)
    THEN enter_sentry_mode_begin(
           [camera_release(s) EXCEPT !.no_threat_frame_count = 0], "limit")
    ELSE s

\* line 233 without the confidence test
QualifiesAnyConfidence(d) == d[1] # None /\ d[1] # "unknown"

\* a detection the alert path accepts (line 233)
Qualifies(d) == d[1] # None /\ d[1] # "unknown" /\ d[2] >= 50

\* intruder_loop, line 215
DeactivateIgnored(s) == FALSE

DeactivateRequested(s) == s.remote_control_request = MODE_SENTRY

\* intruder_loop at time t; read_ok: the camera read succeeds; det: what the
\* detector reports for the frame
IntruderStep(s, t, read_ok, det) ==
  IF DeactivateRequested(s)
    THEN enter_sentry_mode_begin(
           [s EXCEPT !.remote_control_request = None, !.branch = "deactivate"],
           "deactivate")
    ELSE IF capture_frame(s, read_ok)
      THEN IF s.model_loaded = "unset"
        \* analyze_frame reads self.model_loaded, which __init__ never sets
        THEN Raise(s, "analyze_raises")
        ELSE LET d == analyze_frame(s, det)
                 s1 == IF Qualifies(d)
                         THEN AlertDecision(
                                [s EXCEPT !.no_threat_frame_count = 0], t, d[1])
                         ELSE [s EXCEPT !.no_threat_frame_count = @ + 1,
                                        !.branch = "no_threat"]
                 s2 == NoThreatLimit(s1)
             IN  IF s2.exit = "limit" THEN s2 ELSE StreamTimeout(s2, t)
      ELSE StreamTimeout([s EXCEPT !.branch = "no_frame"], t)

\* sentry_loop, lines 161-166: stop an idle camera.  lsa is
\* web_server.last_stream_access.
IdleCheck(s, t, lsa) ==
  IF s.is_active /\ lsa > 0
    THEN IF "STREAM_TIMEOUT" \notin ConfigNames
      THEN Raise(s, "no_STREAM_TIMEOUT")
      ELSE IF t - lsa > ConfigGet("STREAM_TIMEOUT") THEN camera_release(s) ELSE s
    ELSE s

\* sentry_loop, lines 177-191 and 194-208: a sensor or microphone trigger.
\* The list of get_triggered_sensors() is always empty: GPIOSensors has no
\* such method, the AttributeError is caught and any_trigger() decides.
Trigger(s, t, what, triggered_sensors, opens, load_ok) ==
  IF "SENSOR_DEBOUNCE_SECONDS" \notin ConfigNames
    THEN Raise(s, "no_SENSOR_DEBOUNCE_SECONDS")
    ELSE IF t - s.last_sensor_event_time < ConfigGet("SENSOR_DEBOUNCE_SECONDS")
      THEN [s EXCEPT !.branch = "debounced"]
      ELSE LET s1 == [s EXCEPT !.last_sensor_event_time = t]
               s2 == IF ~s1.is_active THEN camera_initialize(s1, opens) ELSE s1
           IN  [enter_intruder_mode(s2, t, triggered_sensors, opens, load_ok)
                  EXCEPT !.branch = what]

\* sentry_loop, lines 170-175: self.sensors.get_triggered_sensors() raises
\* AttributeError, which is caught, and triggered_list keeps its initial []
triggered_list(sensor) == <<>>

\* sentry_loop at time t; poll_ok: any_trigger() returns (GPIO.input does not
\* raise); sensor: what it returns; loud: microphone.is_loud()
SentryStep(s, t, lsa, mic, poll_ok, sensor, loud, opens, load_ok) ==
  IF s.remote_control_request = MODE_INTRUDER
    THEN LET s1 == [s EXCEPT !.remote_control_request = None]
             s2 == IF ~s1.is_active THEN camera_initialize(s1, opens) ELSE s1
         IN  [enter_intruder_mode(s2, t, <<>>, opens, load_ok)
                EXCEPT !.branch = "remote_activate"]
    ELSE LET s1 == IdleCheck(s, t, lsa)
             s2 == IF s1.pc = "crashed" THEN s1
                   \* the fallback call in the except clause: nothing catches it
                   ELSE IF ~poll_ok THEN Raise(s1, "poll_raises")
                   ELSE IF ~sensor THEN s1
                   ELSE Trigger(s1, t, "sensor_enter", triggered_list(sensor),
                                opens, load_ok)
         IN  IF s2.pc = "crashed" \/ s2.mode = MODE_INTRUDER \/ ~(mic /\ loud)
               THEN s2
               ELSE Trigger(s2, t, "mic_enter", <<"SOUND">>, opens, load_ok)

(***************************************************************************)
(* History kept beside the program state.                                  *)
(***************************************************************************)
Step(act, req, inp, branch, exit) ==
  [act |-> act, req |-> req, inp |-> inp, branch |-> branch, exit |-> exit]

\* a step of another thread, or of the clock
Other(act) == Step(act, None, <<>>, "none", "none")

\* the mode-affecting events a tick sees, in order: the request written since
\* the last tick, then what the tick itself decides
ModeEventAfter(s2) ==
  LET seen == IF fresh_request = MODE_INTRUDER THEN "trigger"
              ELSE IF fresh_request = MODE_SENTRY THEN "sentry"
              ELSE last_mode_event
  IN  IF s2.exit \in {"limit", "timeout"} THEN "sentry"
      ELSE IF s2.branch \in {"sensor_enter", "mic_enter"} THEN "trigger"
      ELSE seen

\* no tick, alert, counter or thread beyond the bounds b
WithinBounds(s2, b) ==
  /\ b.ticks = 0 \/ ticks_at_now < b.ticks
  /\ Len(s2.alert_log) <= b.alerts
  /\ s2.alert_threads <= b.threads
  /\ s2.same_threat_count <= b.count

CountTick(b) == IF b.ticks = 0 THEN ticks_at_now ELSE ticks_at_now + 1

(***************************************************************************)
(* The main thread: one iteration of run().                                *)
(***************************************************************************)
SentryTick(poll_ok, sensor, loud, opens, load_ok, b) ==
  /\ pc = "loop"
  /\ mode = MODE_SENTRY
  /\ LET s2 == SentryStep(Self, now, last_stream_access, mic_is_active,
                          poll_ok, sensor, loud, opens, load_ok)
     IN  /\ WithinBounds(s2, b)
         /\ Store(s2)
         /\ ev' = Step("sentry_loop", remote_control_request,
                       <<sensor, loud, poll_ok>>, s2.branch, s2.exit)
         /\ last_mode_event' = ModeEventAfter(s2)
         /\ no_threat_run' = IF s2.mode = MODE_INTRUDER THEN 0 ELSE no_threat_run
  /\ fresh_request' = None
  /\ overwritten' = IF fresh_request = None THEN None ELSE overwritten
  /\ ticks_at_now' = CountTick(b)
  /\ UNCHANGED <<mic_is_active, last_stream_access, now>>
  /\ UNCHANGED <<current_level, wire>>

IntruderTick(read_ok, det, b) ==
  /\ pc = "loop"
  /\ mode = MODE_INTRUDER
  /\ LET s2 == IntruderStep(Self, now, read_ok, det)
         analysed == /\ remote_control_request # MODE_SENTRY
                     /\ capture_frame(Self, read_ok)
                     /\ s2.pc # "crashed"
     IN  /\ WithinBounds(s2, b)
         /\ Store(s2)
         /\ ev' = Step("intruder_loop", remote_control_request, <<read_ok, det>>,
                       s2.branch, s2.exit)
         /\ last_mode_event' = ModeEventAfter(s2)
         /\ no_threat_run' =
              IF ~analysed THEN no_threat_run
              ELSE IF Qualifies(analyze_frame(Self, det)) THEN 0
              ELSE no_threat_run + 1
  /\ fresh_request' = None
  /\ overwritten' = IF fresh_request = None THEN None ELSE overwritten
  /\ ticks_at_now' = CountTick(b)
  /\ UNCHANGED <<mic_is_active, last_stream_access, now>>
  /\ UNCHANGED <<current_level, wire>>

\* sentry_loop with every sensor reading and hardware outcome
sentry_loop ==
  \E poll_ok, sensor, loud, opens, load_ok \in BOOLEAN :
    /\ poll_ok \/ ~sensor
    /\ SentryTick(poll_ok, sensor, loud, opens, load_ok, Bounds)

\* intruder_loop with every camera and detector outcome
intruder_loop ==
  \E read_ok \in BOOLEAN, det \in Detections :
    /\ read_ok \/ det = <<None, 0>>
    /\ IntruderTick(read_ok, det, Bounds)

\* enter_sentry_mode, lines 84-95, after self.mode = MODE_SENTRY:
\* self.ai.is_loaded() reads model_loaded, which exists only once load_model
\* has succeeded or unload_model has run
enter_sentry_mode ==
  /\ pc = "enter_sentry"
  /\ IF model_loaded = "unset"
       THEN pc' = "crashed" /\ UNCHANGED model_loaded
       ELSE pc' = "loop" /\ model_loaded' = unload_model(Self).model_loaded
  /\ UNCHANGED <<mode, last_alert_time, last_sensor_event_time,
                 intruder_start_time, current_triggered_sensors,
                 remote_control_request, no_threat_frame_count,
                 last_alert_threat, same_threat_count, camera, is_active,
                 mic_is_active, last_stream_access, alert_threads, now,
                 alert_log, ev, last_mode_event, fresh_request, overwritten,
                 ticks_at_now, no_threat_run>>
  /\ UNCHANGED <<current_level, wire>>

(***************************************************************************)
(* The other threads.  They stop with the process.                         *)
(***************************************************************************)
Alive == pc \notin {"crashed", "stopped"}

\* request_intruder_mode / request_sentry_mode, if they kept a request that
\* is already pending
MailboxKeepFirst(pending, m) == IF pending = None THEN m ELSE pending

\* request_intruder_mode / request_sentry_mode: one attribute, assigned
MailboxWrite(pending, m) == m

\* /control/activate, if the endpoint switched the mode itself
request_intruder_mode_direct ==
  /\ Alive
  /\ mode' = MODE_INTRUDER
  /\ remote_control_request' = MailboxWrite(remote_control_request, MODE_INTRUDER)
  /\ fresh_request' = MODE_INTRUDER
  /\ overwritten' = fresh_request
  /\ ev' = Other("other")
  /\ UNCHANGED <<last_alert_time, last_sensor_event_time,
                 intruder_start_time, current_triggered_sensors,
                 no_threat_frame_count, last_alert_threat, same_threat_count,
                 camera, is_active, model_loaded, mic_is_active,
                 last_stream_access, alert_threads, now, pc, alert_log,
                 last_mode_event, ticks_at_now, no_threat_run>>
  /\ UNCHANGED <<current_level, wire>>

\* /control/activate -> OrionSentinel.request_intruder_mode
request_intruder_mode ==
  /\ Alive
  /\ remote_control_request' = MailboxWrite(remote_control_request, MODE_INTRUDER)
  /\ fresh_request' = MODE_INTRUDER
  /\ overwritten' = fresh_request
  /\ ev' = Other("other")
  /\ UNCHANGED <<mode, last_alert_time, last_sensor_event_time,
                 intruder_start_time, current_triggered_sensors,
                 no_threat_frame_count, last_alert_threat, same_threat_count,
                 camera, is_active, model_loaded, mic_is_active,
                 last_stream_access, alert_threads, now, pc, alert_log,
                 last_mode_event, ticks_at_now, no_threat_run>>
  /\ UNCHANGED <<current_level, wire>>

\* /control/deactivate -> OrionSentinel.request_sentry_mode
request_sentry_mode ==
  /\ Alive
  /\ remote_control_request' = MailboxWrite(remote_control_request, MODE_SENTRY)
  /\ fresh_request' = MODE_SENTRY
  /\ overwritten' = fresh_request
  /\ ev' = Other("other")
  /\ UNCHANGED <<mode, last_alert_time, last_sensor_event_time,
                 intruder_start_time, current_triggered_sensors,
                 no_threat_frame_count, last_alert_threat, same_threat_count,
                 camera, is_active, model_loaded, mic_is_active,
                 last_stream_access, alert_threads, now, pc, alert_log,
                 last_mode_event, ticks_at_now, no_threat_run>>
  /\ UNCHANGED <<current_level, wire>>

\* /stream: records the access and starts the camera when it is off
video_stream ==
  /\ Alive
  /\ last_stream_access' = now
  /\ \E opens \in BOOLEAN :
       LET s2 == IF ~is_active THEN camera_initialize(Self, opens) ELSE Self
       IN  camera' = s2.camera /\ is_active' = s2.is_active
  /\ ev' = Other("other")
  /\ UNCHANGED <<mode, last_alert_time, last_sensor_event_time,
                 intruder_start_time, current_triggered_sensors,
                 remote_control_request, no_threat_frame_count,
                 last_alert_threat, same_threat_count, model_loaded,
                 mic_is_active, alert_threads, now, pc, alert_log,
                 last_mode_event, fresh_request, overwritten, ticks_at_now,
                 no_threat_run>>
  /\ UNCHANGED <<current_level, wire>>

\* /stream/keepalive
stream_keepalive ==
  /\ Alive
  /\ last_stream_access' = now
  /\ ev' = Other("other")
  /\ UNCHANGED <<mode, last_alert_time, last_sensor_event_time,
                 intruder_start_time, current_triggered_sensors,
                 remote_control_request, no_threat_frame_count,
                 last_alert_threat, same_threat_count, camera, is_active,
                 model_loaded, mic_is_active, alert_threads, now, pc,
                 alert_log, last_mode_event, fresh_request, overwritten,
                 ticks_at_now, no_threat_run>>
  /\ UNCHANGED <<current_level, wire>>

\* _send_alert_async reaches its end: lines 363-368 write both timers unless
\* an exception was raised before them (sent = FALSE)
AlertThreadEnds(sent) ==
  /\ Alive
  /\ alert_threads > 0
  /\ alert_threads' = alert_threads - 1
  /\ IF sent
       THEN last_alert_time' = now /\ intruder_start_time' = now
       ELSE UNCHANGED <<last_alert_time, intruder_start_time>>
  /\ ev' = Other("other")
  /\ UNCHANGED <<mode, last_sensor_event_time, current_triggered_sensors,
                 remote_control_request, no_threat_frame_count,
                 last_alert_threat, same_threat_count, camera, is_active,
                 model_loaded, mic_is_active, last_stream_access, now, pc,
                 alert_log, last_mode_event, fresh_request, overwritten,
                 ticks_at_now, no_threat_run>>
  /\ UNCHANGED <<current_level, wire>>

send_alert_async == \E sent \in BOOLEAN : AlertThreadEnds(sent)

\* time passes (the sleeps of the loops, slow calls)
Tock(step, horizon) ==
  /\ Alive
  /\ now + step <= StartTime + horizon
  /\ now' = now + step
  /\ ticks_at_now' = 0
  /\ ev' = Other("other")
  /\ UNCHANGED <<mode, last_alert_time, last_sensor_event_time,
                 intruder_start_time, current_triggered_sensors,
                 remote_control_request, no_threat_frame_count,
                 last_alert_threat, same_threat_count, camera, is_active,
                 model_loaded, mic_is_active, last_stream_access,
                 alert_threads, pc, alert_log, last_mode_event, fresh_request,
                 overwritten,
                 no_threat_run>>
  /\ UNCHANGED <<current_level, wire>>

\* KeyboardInterrupt in the main thread, caught by run(): shutdown() releases
\* the camera and the microphone and ends with sensors.cleanup(); it does not
\* touch the classifier.  The daemon threads end with the process.
shutdown ==
  /\ pc \in {"loop", "enter_sentry"}
  /\ pc' = "stopped"
  /\ LET s2 == camera_release(Self)
     IN  camera' = s2.camera /\ is_active' = s2.is_active
  /\ mic_is_active' = FALSE
  /\ ev' = Other("other")
  /\ UNCHANGED <<mode, last_alert_time, last_sensor_event_time,
                 intruder_start_time, current_triggered_sensors,
                 remote_control_request, no_threat_frame_count,
                 last_alert_threat, same_threat_count, model_loaded,
                 last_stream_access, alert_threads, now, alert_log,
                 last_mode_event, fresh_request, overwritten, ticks_at_now,
                 no_threat_run>>
  /\ UNCHANGED <<current_level, wire>>

(***************************************************************************)
(* OrionSentinel.__init__ and initialize(): the microphone may fail to     *)
(* initialise.                                                             *)
(***************************************************************************)
\* the mappings not called yet
NoWire == [trigger_type |-> None, threat |-> None, called |-> {},
           status |-> None, alert |-> <<None, None>>]

\* OrionSentinel: the state after __init__ and initialize()
InitSentinel ==
  /\ mode = MODE_SENTRY
  /\ last_alert_time = 0
  /\ last_sensor_event_time = 0
  /\ intruder_start_time = 0
  /\ current_triggered_sensors = <<>>
  /\ remote_control_request = None
  /\ no_threat_frame_count = 0
  /\ last_alert_threat = None
  /\ same_threat_count = 0
  /\ camera = None
  /\ is_active = FALSE
  /\ model_loaded = "unset"
  /\ mic_is_active \in BOOLEAN
  /\ last_stream_access = 0
  /\ alert_threads = 0
  /\ now = StartTime
  /\ pc = "loop"
  /\ alert_log = <<>>
  /\ ev = Other("init")
  /\ last_mode_event = "none"
  /\ fresh_request = None
  /\ overwritten = None
  /\ ticks_at_now = 0
  /\ no_threat_run = 0
  /\ current_level = 0

Init == InitSentinel /\ wire = NoWire

clock == Tock(ClockStep, MaxElapsed)

Next ==
  \/ sentry_loop
  \/ intruder_loop
  \/ enter_sentry_mode
  \/ request_intruder_mode
  \/ request_sentry_mode
  \/ video_stream
  \/ stream_keepalive
  \/ send_alert_async
  \/ clock
  \/ shutdown

Spec == Init /\ [][Next]_vars

(***************************************************************************)
(* One threat on every frame: the backend activates the sentinel once, at  *)
(* the start; the camera and the model work; the detector reports          *)
(* ("person", 0.9) for every frame; the main loop iterates at least        *)
(* PersonTicks times per clock value.                                      *)
(***************************************************************************)
person_activate ==
  /\ mode = MODE_SENTRY
  /\ remote_control_request = None
  /\ intruder_start_time = 0
  /\ request_intruder_mode

person_sentry_loop ==
  /\ remote_control_request = MODE_INTRUDER
  /\ SentryTick(TRUE, FALSE, FALSE, TRUE, TRUE, PersonBounds)

person_intruder_loop == IntruderTick(TRUE, <<"person", 90>>, PersonBounds)

person_clock ==
  /\ mode = MODE_INTRUDER
  /\ ticks_at_now >= PersonTicks
  /\ Tock(FineStep, PersonHorizon)

NextPerson ==
  \/ person_activate
  \/ person_sentry_loop
  \/ person_intruder_loop
  \/ send_alert_async
  \/ person_clock

SpecPerson == Init /\ [][NextPerson]_vars

(***************************************************************************)
(* Runs of frames without a threat: no sensor fires, the camera opens, and *)
(* the main loop iterates any number of times per clock value.             *)
(***************************************************************************)
QuietDetections ==
  {<<"unknown", 0>>, <<None, 0>>, <<"person", 40>>, <<"person", 90>>}

quiet_sentry_loop ==
  \E load_ok \in BOOLEAN :
    SentryTick(TRUE, FALSE, FALSE, TRUE, load_ok, QuietBounds)

quiet_intruder_loop ==
  \E read_ok \in BOOLEAN, det \in QuietDetections :
    /\ read_ok \/ det = <<None, 0>>
    /\ IntruderTick(read_ok, det, QuietBounds)

NextQuiet ==
  \/ quiet_sentry_loop
  \/ quiet_intruder_loop
  \/ enter_sentry_mode
  \/ request_intruder_mode
  \/ request_sentry_mode
  \/ send_alert_async
  \/ clock

SpecQuiet == Init /\ [][NextQuiet]_vars

(***************************************************************************)
(* One INTRUDER episode: the backend activates the sentinel at StartTime,  *)
(* the camera and the model work, the detector reports any label for each  *)
(* frame, alert threads end at any time.  Nothing re-activates the         *)
(* sentinel once it is back in SENTRY mode.                                *)
(***************************************************************************)
EpisodeDetections == {<<"person", 90>>, <<"car", 90>>, <<"unknown", 0>>}

episode_activate ==
  /\ now = StartTime
  /\ mode = MODE_SENTRY
  /\ remote_control_request = None
  /\ intruder_start_time = 0
  /\ request_intruder_mode

episode_sentry_loop ==
  /\ now = StartTime
  /\ remote_control_request = MODE_INTRUDER
  /\ SentryTick(TRUE, FALSE, FALSE, TRUE, TRUE, EpisodeBounds)

episode_intruder_loop ==
  \E det \in EpisodeDetections : IntruderTick(TRUE, det, EpisodeBounds)

NextEpisode ==
  \/ episode_activate
  \/ episode_sentry_loop
  \/ episode_intruder_loop
  \/ enter_sentry_mode
  \/ send_alert_async
  \/ clock

SpecEpisode == Init /\ [][NextEpisode]_vars

(***************************************************************************)
(* Episode after episode under one threat: the backend activates and       *)
(* deactivates the sentinel any number of times, the camera and the model  *)
(* work, the detector reports ("person", 0.9) for every frame, alert       *)
(* threads end at any time.                                                *)
(***************************************************************************)
carry_activate ==
  /\ mode = MODE_SENTRY
  /\ pc = "loop"
  /\ remote_control_request = None
  /\ request_intruder_mode

carry_deactivate ==
  /\ mode = MODE_INTRUDER
  /\ remote_control_request = None
  /\ request_sentry_mode

carry_sentry_loop ==
  /\ remote_control_request = MODE_INTRUDER
  /\ SentryTick(TRUE, FALSE, FALSE, TRUE, TRUE, PersonBounds)

carry_intruder_loop == IntruderTick(TRUE, <<"person", 90>>, PersonBounds)

carry_clock == Tock(FineStep, PersonHorizon)

NextCarry ==
  \/ carry_activate
  \/ carry_deactivate
  \/ carry_sentry_loop
  \/ carry_intruder_loop
  \/ enter_sentry_mode
  \/ send_alert_async
  \/ carry_clock

SpecCarry == Init /\ [][NextCarry]_vars

(***************************************************************************)
(* modules/hardware.py: MicrophoneMonitor.  The sampler thread             *)
(* (_monitor_loop) reads the hardware and publishes the level under the    *)
(* lock; is_loud(), which sentry_loop calls, reads the hardware itself     *)
(* (get_sound_level) and is the `loud` input of the tick.                  *)
(***************************************************************************)
MIC_THRESHOLD == 5000

\* what get_sound_level() can return: a quiet and a loud level
MicLevels == {0, 6000}

\* one round of _monitor_loop
monitor_loop ==
  /\ Alive
  /\ mic_is_active
  /\ \E level \in MicLevels : current_level' = level
  /\ ev' = Other("other")
  /\ UNCHANGED <<mode, last_alert_time, last_sensor_event_time,
                 intruder_start_time, current_triggered_sensors,
                 remote_control_request, no_threat_frame_count,
                 last_alert_threat, same_threat_count, camera, is_active,
                 model_loaded, mic_is_active, last_stream_access,
                 alert_threads, now, pc, alert_log, last_mode_event,
                 fresh_request, overwritten, ticks_at_now, no_threat_run,
                 wire>>

NextMic ==
  \/ monitor_loop
  \/ sentry_loop
  \/ intruder_loop
  \/ enter_sentry_mode
  \/ request_intruder_mode
  \/ request_sentry_mode
  \/ clock

SpecMic == Init /\ [][NextMic]_vars

(***************************************************************************)
(* orion/main.py: the wire-value mappings, on every value.                 *)
(***************************************************************************)
\* dict.get(key, default)
DictGet(d, key, default) == IF key \in DOMAIN d THEN d[key] ELSE default

\* enter_intruder_mode, lines 121-130
trigger_type_map_enter ==
  ("gpio" :> "pir") @@ ("microphone" :> "microphone") @@ ("remote" :> "remote")
    @@ ("ai" :> "ai") @@ ("camera" :> "camera") @@ ("manual" :> "manual")
    @@ ("sound" :> "sound") @@ ("vibration" :> "vibration")

\* enter_intruder_mode, line 131
mapped_trigger_type_enter(trigger_type) ==
  DictGet(trigger_type_map_enter, trigger_type, trigger_type)

\* _send_alert_async, lines 299-307
threat_type_map ==
  ("person" :> "person") @@ ("car" :> "car") @@ ("truck" :> "truck")
    @@ ("motorcycle" :> "motorcycle") @@ ("bus" :> "bus")
    @@ ("animal" :> "animal") @@ ("unknown" :> "unknown")

\* line 308, if an unlisted label were passed through
mapped_threat_raw(threat) == DictGet(threat_type_map, threat, threat)

\* _send_alert_async, line 308
mapped_threat(threat) == DictGet(threat_type_map, threat, "unknown")

\* _send_alert_async, lines 311-320
trigger_type_map_alert ==
  ("gpio" :> "pir") @@ ("microphone" :> "microphone") @@ ("remote" :> "remote")
    @@ ("ai" :> "ai") @@ ("camera" :> "camera") @@ ("manual" :> "manual")
    @@ ("sound" :> "sound") @@ ("vibration" :> "vibration")

\* _send_alert_async, line 321
mapped_trigger_type_alert(trigger_type) ==
  DictGet(trigger_type_map_alert, trigger_type, trigger_type)

\* the values handed to the mappings: every listed key, and some others
TriggerTypes ==
  {"gpio", "microphone", "remote", "ai", "camera", "manual", "sound",
   "vibration", "pir", "button", None}
ThreatLabels ==
  {"person", "car", "truck", "motorcycle", "bus", "animal", "unknown",
   "bicycle", "dog", "Person", None}

\* everything but the mappings' own record
sentinel_vars ==
  <<mode, last_alert_time, last_sensor_event_time, intruder_start_time,
    current_triggered_sensors, remote_control_request, no_threat_frame_count,
    last_alert_threat, same_threat_count, camera, is_active, model_loaded,
    mic_is_active, last_stream_access, alert_threads, now, pc, alert_log, ev,
    last_mode_event, fresh_request, overwritten, ticks_at_now, no_threat_run,
    current_level>>

\* the mapping of enter_intruder_mode, applied
wire_enter_intruder_mode ==
  /\ "status" \notin wire.called
  /\ wire' = [wire EXCEPT !.called = @ \cup {"status"},
                          !.status = mapped_trigger_type_enter(wire.trigger_type)]
  /\ UNCHANGED sentinel_vars

\* the mappings of _send_alert_async, applied
wire_send_alert_async ==
  /\ "alert" \notin wire.called
  /\ wire' = [wire EXCEPT !.called = @ \cup {"alert"},
                          !.alert = <<mapped_threat(wire.threat),
                                      mapped_trigger_type_alert(wire.trigger_type)>>]
  /\ UNCHANGED sentinel_vars

InitWire ==
  /\ InitSentinel
  /\ wire \in {[NoWire EXCEPT !.trigger_type = x, !.threat = y] :
                  x \in TriggerTypes, y \in ThreatLabels}

NextWire ==
  \/ wire_enter_intruder_mode
  \/ wire_send_alert_async

SpecWire == InitWire /\ [][NextWire]_vars

(***************************************************************************)
(* The mailbox, statement by statement.  A tick tests                      *)
(* remote_control_request (main.py:150, 215), logs, and only then assigns  *)
(* None (152, 217): the Flask thread can write between the two.  A tick    *)
(* whose test finds nothing to act on reads the mailbox once.              *)
(***************************************************************************)
\* the test of the mailbox has found the request `req`
MailboxTested(req, at) ==
  /\ pc = "loop"
  /\ remote_control_request = req
  /\ pc' = at
  /\ fresh_request' = None
  /\ overwritten' = None
  /\ ev' = Other("other")
  /\ UNCHANGED <<mode, last_alert_time, last_sensor_event_time,
                 intruder_start_time, current_triggered_sensors,
                 remote_control_request, no_threat_frame_count,
                 last_alert_threat, same_threat_count, camera, is_active,
                 model_loaded, mic_is_active, last_stream_access,
                 alert_threads, now, alert_log, last_mode_event,
                 ticks_at_now, no_threat_run, current_level, wire>>

\* sentry_loop, line 150
race_sentry_test ==
  mode = MODE_SENTRY /\ MailboxTested(MODE_INTRUDER, "sentry_remote")

\* intruder_loop, line 215
race_intruder_test ==
  mode = MODE_INTRUDER /\ MailboxTested(MODE_SENTRY, "intruder_remote")

\* the rest of the tick, s2 being the state it leaves
MailboxCleared(s2, req, seen) ==
  /\ WithinBounds(s2, Bounds)
  /\ Store(s2)
  /\ ev' = Step(IF req = MODE_INTRUDER THEN "sentry_loop" ELSE "intruder_loop",
                req, <<>>, s2.branch, s2.exit)
  /\ last_mode_event' = seen
  /\ no_threat_run' = IF s2.mode = MODE_INTRUDER THEN 0 ELSE no_threat_run
  /\ fresh_request' = None
  /\ overwritten' = None
  /\ ticks_at_now' = CountTick(Bounds)
  /\ UNCHANGED <<mic_is_active, last_stream_access, now, current_level, wire>>

\* sentry_loop, lines 151-159: whatever the mailbox holds by now is replaced
\* by None and INTRUDER mode is entered
race_sentry_clear ==
  /\ pc = "sentry_remote"
  /\ \E opens, load_ok \in BOOLEAN :
       MailboxCleared(
         SentryStep([Self EXCEPT !.pc = "loop",
                                 !.remote_control_request = MODE_INTRUDER],
                    now, last_stream_access, mic_is_active,
                    TRUE, FALSE, FALSE, opens, load_ok),
         MODE_INTRUDER, "trigger")

\* intruder_loop, lines 216-219
race_intruder_clear ==
  /\ pc = "intruder_remote"
  /\ MailboxCleared(
       IntruderStep([Self EXCEPT !.pc = "loop",
                                 !.remote_control_request = MODE_SENTRY],
                    now, FALSE, <<None, 0>>),
       MODE_SENTRY, "sentry")

race_sentry_loop == remote_control_request # MODE_INTRUDER /\ sentry_loop

race_intruder_loop == remote_control_request # MODE_SENTRY /\ intruder_loop

NextRace ==
  \/ race_sentry_test
  \/ race_sentry_clear
  \/ race_intruder_test
  \/ race_intruder_clear
  \/ race_sentry_loop
  \/ race_intruder_loop
  \/ enter_sentry_mode
  \/ request_intruder_mode
  \/ request_sentry_mode
  \/ clock

SpecRace == Init /\ [][NextRace]_vars

(***************************************************************************)
(* Time without end.  The program reads its timestamps only as differences *)
(* from time.time() (lines 240, 286) and as zero / not zero (line 286), so *)
(* a clock step may equally leave `now` and move every timestamp that is   *)
(* set back by ClockStep.  Ages stop growing at MaxElapsed, which is above *)
(* ALERT_COOLDOWN and STREAM_DURATION: older is all the tests can tell.    *)
(* The history of alerts starts again with every clock step.  The backend  *)
(* activates the sentinel whenever it is idle in SENTRY mode; the camera   *)
(* opens and the model loads; every frame that is read shows               *)
(* ("person", 0.9).                                                        *)
(***************************************************************************)
Older(stamp) ==
  IF stamp = 0 THEN 0
  ELSE IF stamp - ClockStep < now - MaxElapsed THEN now - MaxElapsed
  ELSE stamp - ClockStep

live_clock ==
  /\ Alive
  /\ last_alert_time' = Older(last_alert_time)
  /\ intruder_start_time' = Older(intruder_start_time)
  /\ alert_log' = <<>>
  /\ ticks_at_now' = 0
  /\ ev' = Other("other")
  /\ UNCHANGED <<mode, last_sensor_event_time, current_triggered_sensors,
                 remote_control_request, no_threat_frame_count,
                 last_alert_threat, same_threat_count, camera, is_active,
                 model_loaded, mic_is_active, last_stream_access,
                 alert_threads, now, pc, last_mode_event, fresh_request,
                 overwritten, no_threat_run, current_level, wire>>

live_activate ==
  /\ mode = MODE_SENTRY
  /\ pc = "loop"
  /\ remote_control_request = None
  /\ request_intruder_mode

live_sentry_loop == SentryTick(TRUE, FALSE, FALSE, TRUE, TRUE, Bounds)

live_intruder_loop ==
  \/ IntruderTick(TRUE, <<"person", 90>>, Bounds)
  \/ IntruderTick(FALSE, <<None, 0>>, Bounds)

NextLive ==
  \/ live_activate
  \/ live_sentry_loop
  \/ live_intruder_loop
  \/ enter_sentry_mode
  \/ send_alert_async
  \/ live_clock

\* the main loop keeps iterating, alert threads end, time passes
SpecLive ==
  /\ Init
  /\ [][NextLive]_vars
  /\ WF_vars(live_sentry_loop)
  /\ WF_vars(live_intruder_loop)
  /\ WF_vars(enter_sentry_mode)
  /\ WF_vars(send_alert_async)
  /\ WF_vars(live_clock)

(***************************************************************************)
(* Properties.                                                             *)
(***************************************************************************)
\* a tick of the main loop has just ended, or has just died
AfterTick(act) == ev.act = act /\ pc \in {"loop", "crashed"}

\* C1: at every tick boundary (the main loop between two iterations, every
\* request written so far seen by a tick) the mode is INTRUDER exactly when
\* the most recent mode-affecting event was a qualifying trigger, with no
\* SENTRY-causing event after it.
C1_ModeFollowsEvents ==
  (pc = "loop" /\ fresh_request = None)
    => (mode = MODE_INTRUDER <=> last_mode_event = "trigger")

\* C2: debounce.  Of two sensor triggers seen by SENTRY ticks within the
\* debounce window, the first is accepted and is the one SENTRY->INTRUDER
\* transition, the second is ignored: a SENTRY tick that sees an edge-sensor
\* or microphone trigger (and no remote request) completes, either having
\* entered INTRUDER mode or having ignored the trigger as debounced.
C2_Debounce ==
  (ev.act = "sentry_loop" /\ ev.req # MODE_INTRUDER
     /\ (ev.inp[1] \/ (mic_is_active /\ ev.inp[2])))
    => (pc = "loop" /\ ev.branch \in {"sensor_enter", "mic_enter", "debounced"})

\* the times of the alerts dispatched, relative to the start of the run
AlertsIn(lo, hi) ==
  Cardinality({i \in 1..Len(alert_log) :
                 lo <= alert_log[i][1] - StartTime /\ alert_log[i][1] - StartTime < hi})

\* C3: with one threat label on every frame, no window of ALERT_COOLDOWN
\* seconds holds more than 2 dispatched alerts, in the first window and in
\* every later one: any alert and the second alert after it are at least
\* ALERT_COOLDOWN apart.
C3_AtMostTwoPerWindow ==
  \A i \in 1..Len(alert_log) :
    i + 2 <= Len(alert_log)
      => alert_log[i + 2][1] - alert_log[i][1] >= ALERT_COOLDOWN

\* two alerts in the first window, and the pattern has started again
C3_Witness ==
  /\ Len(alert_log) = 4
  /\ alert_log[2][1] - alert_log[1][1] < ALERT_COOLDOWN
  /\ alert_log[4][1] - alert_log[3][1] < ALERT_COOLDOWN
  /\ \A i \in 1..4 : alert_log[i][2] = "person"

\* the run of the scenario is over: the last clock value below the horizon
\* has had its iterations of the main loop
RunComplete ==
  /\ mode = MODE_INTRUDER
  /\ now + FineStep > StartTime + PersonHorizon
  /\ ticks_at_now >= PersonTicks

\* C4, as claimed: ("person", 0.9) on every tick for 40 s with a cooldown of
\* 30 s gives exactly 2 alerts in [0,30) and exactly 1 alert at or after 30 s.
C4_TwoThenOne ==
  RunComplete => (AlertsIn(0, 30) = 2 /\ AlertsIn(30, 40) = 1)

\* C4, amended: exactly 2 alerts in [0,30); at or after 30 s the counter
\* starts again, which gives 2 further alerts, or none when an alert thread
\* has moved last_alert_time so that the cooldown outlasts the run.
C4_TwoThenTwoOrNone ==
  /\ AlertsIn(0, 30) <= 2
  /\ RunComplete =>
       /\ AlertsIn(0, 30) = 2
       /\ AlertsIn(30, 40) \in {0, 2}

C4_Witness == RunComplete /\ AlertsIn(0, 30) = 2 /\ AlertsIn(30, 40) = 2

\* the stream-duration timeout is due
TimeoutDue ==
  intruder_start_time # 0 /\ now - intruder_start_time > STREAM_DURATION

\* C5: the tick that analyses the 20th frame in a row without a qualifying
\* threat returns to SENTRY with the counter at 0, and no tick does so for
\* this reason before the 20th such frame.
C5_NoThreatLimit ==
  /\ no_threat_run <= 20
  /\ no_threat_run = 20 => (mode = MODE_SENTRY /\ no_threat_frame_count = 0)
  /\ (AfterTick("intruder_loop") /\ mode = MODE_SENTRY
        /\ ev.req # MODE_SENTRY /\ ~TimeoutDue)
       => no_threat_run = 20

C5_Witness ==
  /\ AfterTick("intruder_loop")
  /\ pc = "loop"
  /\ no_threat_run = 20
  /\ mode = MODE_SENTRY
  /\ no_threat_frame_count = 0
  /\ ~TimeoutDue

\* C6: an INTRUDER tick that starts with a remote SENTRY request pending
\* ends in SENTRY mode, whatever the camera and the detector deliver.
C6_DeactivateWins ==
  (ev.act = "intruder_loop" /\ ev.req = MODE_SENTRY) => mode = MODE_SENTRY

C6_Witness ==
  /\ AfterTick("intruder_loop")
  /\ ev.req = MODE_SENTRY
  /\ ev.inp = <<TRUE, <<"person", 90>>>>
  /\ model_loaded = "unloaded"
  /\ mode = MODE_SENTRY

\* C7: a SENTRY tick that sees an edge-sensor trigger at time t with no
\* sensor event recorded before ends in INTRUDER mode with the classifier
\* loaded, the camera active and intruder_start_time = t.
C7_FirstTriggerEnters ==
  (ev.act = "sentry_loop" /\ ev.req # MODE_INTRUDER /\ ev.inp[1]
     /\ last_sensor_event_time \in {0, now})
    => /\ mode = MODE_INTRUDER
       /\ model_loaded = "loaded"
       /\ is_active
       /\ intruder_start_time = now

\* C8: in every state, the states inside a mode transition that /status can
\* observe included, the classifier is not loaded while the mode is SENTRY.
C8_NeverLoadedInSentry == mode = MODE_SENTRY => model_loaded # "loaded"

\* C9: whenever the mode is SENTRY and the camera is active between two
\* ticks, a stream access has been recorded.
C9_CameraOnlyForViewer ==
  (pc = "loop" /\ mode = MODE_SENTRY /\ is_active) => last_stream_access > 0

\* C10: a SENTRY tick releases a camera that no viewer has accessed for
\* longer than the idle period, also when no access was ever recorded: no
\* SENTRY tick ends with the camera still active when nothing has accessed it
\* since INTRUDER mode switched it on MaxElapsed seconds ago or earlier.
C10_IdleCameraReleased ==
  ~ /\ AfterTick("sentry_loop")
    /\ pc = "loop"
    /\ mode = MODE_SENTRY
    /\ is_active
    /\ last_stream_access = 0
    /\ now - intruder_start_time >= MaxElapsed

\* C11, as claimed: same_threat_count never exceeds the cap of 2.
C11_CountWithinCap == same_threat_count <= 2

\* C11, amended: same_threat_count counts the qualifying detections of the
\* last alerted label within the cooldown and does pass 2; the cap is on the
\* alerts: a tick dispatches an alert only with the counter at 1 or 2, and a
\* tick that suppresses one has it above 2.
C11_AlertOnlyWithinCap ==
  /\ same_threat_count >= 0
  /\ (ev.act = "intruder_loop" /\ ev.branch = "alert")
       => same_threat_count \in {1, 2}
  /\ (ev.act = "intruder_loop" /\ ev.branch = "suppressed")
       => same_threat_count > 2

\* a third detection of the alerted label within the cooldown: the counter is
\* at 3 and no third alert was dispatched
C11_Witness ==
  /\ ev.act = "intruder_loop"
  /\ ev.branch = "suppressed"
  /\ same_threat_count = 3
  /\ Len(alert_log) = 2
  /\ alert_log[1][2] = alert_log[2][2]

C13_TickDrainsMailbox ==
  (ev.act \in {"sentry_loop", "intruder_loop"} /\ pc # "crashed")
    => remote_control_request = None

\* C15: no alert thread writes a timer the main loop reads: the step that
\* ends an alert thread leaves last_alert_time and intruder_start_time alone.
C15_OnlyMainLoopWritesTimers ==
  [][alert_threads' < alert_threads
       => /\ last_alert_time' = last_alert_time
          /\ intruder_start_time' = intruder_start_time]_vars

\* C16: in an episode entered at StartTime, an INTRUDER tick that completes
\* more than STREAM_DURATION later leaves the sentinel in SENTRY mode,
\* whatever alerts were dispatched or delivered.
C16_TimeoutAfterStreamDuration ==
  (ev.act = "intruder_loop" /\ pc # "crashed"
     /\ now - StartTime > STREAM_DURATION)
    => mode = MODE_SENTRY

\* C17: no error ends the main loop.
C17_LoopNeverDies == pc # "crashed"

\* C19: an INTRUDER tick that analyses a frame while the classifier is not
\* loaded raises nothing and counts the frame as a no-threat frame.
C19_NotLoadedIsNoDetection ==
  (ev.act = "intruder_loop" /\ ev.exit = "none" /\ model_loaded # "loaded"
     /\ ev.branch \notin {"no_frame", "deactivate"})
    => (pc # "crashed" /\ ev.branch = "no_threat")

\* C20: initialising twice is initialising once, releasing twice is releasing
\* once, in every reachable state and for every answer of the device; and a
\* device handle that is held is never replaced by a new one.
C20_CameraIdempotent ==
  /\ [](\A o1, o2 \in BOOLEAN :
          /\ camera_initialize(camera_initialize(Self, o1), o2)
               = camera_initialize(Self, o1)
          /\ camera_release(camera_release(Self)) = camera_release(Self)
          /\ camera = None => camera_release(Self) = Self)
  /\ [][camera # None => camera' \in {camera, None}]_vars

\* the main loop and the stream endpoint have both asked for the camera, and
\* the one handle made is held although the device did not open
C20_Witness ==
  /\ mode = MODE_INTRUDER
  /\ last_stream_access > 0
  /\ is_active
  /\ camera = "closed"

\* C14: the mailbox holds one request and the last writer wins.  A request
\* written since the last tick is the one in the mailbox; and a tick that
\* follows several writes acts on the last one only: it enters INTRUDER mode
\* on the remote request exactly when it is a SENTRY tick and the last
\* request was INTRUDER, and it deactivates exactly when it is an INTRUDER
\* tick and the last request was SENTRY.
C14_LastWriterWins ==
  /\ fresh_request # None => remote_control_request = fresh_request
  /\ (ev.act \in {"sentry_loop", "intruder_loop"} /\ overwritten # None
        /\ pc # "crashed")
       => /\ ev.req # None
          /\ ev.branch = "remote_activate"
               <=> (ev.act = "sentry_loop" /\ ev.req = MODE_INTRUDER)
          /\ ev.exit = "deactivate"
               <=> (ev.act = "intruder_loop" /\ ev.req = MODE_SENTRY)

\* activate then deactivate were written before one INTRUDER tick, which
\* deactivates; deactivate then activate before one SENTRY tick, which
\* activates
C14_Witness ==
  \/ /\ ev.act = "intruder_loop"
     /\ overwritten = MODE_INTRUDER
     /\ ev.req = MODE_SENTRY
     /\ mode = MODE_SENTRY
  \/ /\ ev.act = "sentry_loop"
     /\ overwritten = MODE_SENTRY
     /\ ev.req = MODE_INTRUDER
     /\ mode = MODE_INTRUDER

\* C18: after the shutdown that an operator interrupt starts, the camera is
\* released and the classifier is unloaded (sensors.cleanup() is the last
\* statement of shutdown, so it has run).
C18_ShutdownReleasesAll ==
  pc = "stopped" => (camera = None /\ ~is_active /\ model_loaded # "loaded")

\* C21: the outcome of alert deliveries does not change the modes a run goes
\* through.  In an episode entered at StartTime, the run in which every
\* delivery fails before it writes anything times out at the first INTRUDER
\* tick later than StartTime + STREAM_DURATION; so does every run with the
\* same inputs: a tick that neither deactivates nor hits the no-threat limit
\* times out exactly when more than STREAM_DURATION has passed since entry.
C21_DeliveryDoesNotMoveTimeout ==
  (ev.act = "intruder_loop" /\ pc # "crashed" /\ ev.exit \in {"none", "timeout"})
    => (ev.exit = "timeout" <=> now - StartTime > STREAM_DURATION)

\* C22: an alert decision that passes the cooldown policy starts exactly one
\* delivery thread, nothing else starts one, and a delivery thread ends once,
\* whatever its outcome, without starting another or queueing the alert again.
C22_OneThreadOneAttempt ==
  [][ /\ (Len(alert_log') # Len(alert_log))
           => (/\ Len(alert_log') = Len(alert_log) + 1
               /\ alert_threads' = alert_threads + 1)
      /\ (alert_threads' > alert_threads)
           => (/\ Len(alert_log') = Len(alert_log) + 1
               /\ ev'.act = "intruder_loop"
               /\ ev'.branch = "alert")
      /\ (alert_threads' < alert_threads)
           => (/\ alert_threads' = alert_threads - 1
               /\ alert_log' = alert_log) ]_vars

\* the one thread of an alert has ended and a later tick has started none
C22_Witness ==
  /\ Len(alert_log) = 1
  /\ alert_threads = 0
  /\ mode = MODE_INTRUDER
  /\ ev.act = "intruder_loop"
  /\ ev.branch \in {"no_threat", "no_frame"}

\* C23: the mode is SENTRY at startup, and only a tick of the main loop
\* changes it: no remote request, stream access, alert thread, clock step or
\* shutdown does.
C23_OnlyTicksChangeMode ==
  /\ mode = MODE_SENTRY
  /\ [][mode' # mode
          => (pc = "loop" /\ ev'.act \in {"sentry_loop", "intruder_loop"})]_vars

\* a request to deactivate is pending in INTRUDER mode and the mode has not
\* moved; a stream access and an alert thread have come and gone
C23_Witness ==
  /\ mode = MODE_INTRUDER
  /\ remote_control_request = MODE_SENTRY
  /\ last_stream_access > 0
  /\ Len(alert_log) = 1
  /\ alert_threads = 0

\* C24: an alert is dispatched only by a tick in INTRUDER mode that has no
\* deactivate request to consume, for a frame whose label is a threat label
\* (not unknown, not none) with confidence >= 0.5; it is logged under that
\* label at the time of the tick.
C24_AlertOnlyForThreatInIntruder ==
  [][alert_log' # alert_log
       => /\ mode = MODE_INTRUDER
          /\ pc = "loop"
          /\ ev'.act = "intruder_loop"
          /\ ev'.req # MODE_SENTRY
          /\ ev'.inp[1]
          /\ ev'.inp[2][1] \notin {None, "unknown"}
          /\ ev'.inp[2][2] >= 50
          /\ alert_log' = Append(alert_log, <<now, ev'.inp[2][1]>>)]_vars

\* an alert was dispatched for ("car", 0.9) by an INTRUDER tick
C24_Witness ==
  /\ ev.act = "intruder_loop"
  /\ ev.branch = "alert"
  /\ ev.inp = <<TRUE, <<"car", 90>>>>
  /\ alert_log = <<<<now, "car">>>>
  /\ mode = MODE_INTRUDER

\* C25: the alert decision for a qualifying detection.  If its label is not
\* the last alerted label, or ALERT_COOLDOWN has passed since the last alert
\* time, the counter becomes 1 and an alert is sent; otherwise the counter is
\* incremented and an alert is sent exactly when the new counter is <= 2.
C25_AlertGating ==
  [][(pc = "loop" /\ mode = MODE_INTRUDER /\ ev'.act = "intruder_loop"
        /\ ev'.branch \in {"alert", "suppressed"})
       => IF \/ last_alert_threat # ev'.inp[2][1]
             \/ now - last_alert_time >= ALERT_COOLDOWN
            THEN /\ same_threat_count' = 1
                 /\ ev'.branch = "alert"
                 /\ Len(alert_log') = Len(alert_log) + 1
            ELSE /\ same_threat_count' = same_threat_count + 1
                 /\ ev'.branch = "alert" <=> same_threat_count' <= 2
                 /\ Len(alert_log') = Len(alert_log) + 1
                      <=> same_threat_count' <= 2]_vars

\* the same label again once the cooldown has passed: the counter is back at
\* 1 and a third alert is sent
C25_Witness ==
  /\ ev.act = "intruder_loop"
  /\ ev.branch = "alert"
  /\ same_threat_count = 1
  /\ Len(alert_log) = 3
  /\ alert_log[1][2] = alert_log[3][2]
  /\ alert_log[2][2] = alert_log[3][2]
  /\ alert_log[3][1] - alert_log[2][1] >= ALERT_COOLDOWN

\* C26: the camera is active only when the device was opened: a device that
\* fails to open leaves the camera inactive.
C26_ActiveOnlyIfOpened == is_active => camera = "open"

\* C27: after a SENTRY->INTRUDER transition the recorded list of triggered
\* sensors is empty for a remote activation, <<"SOUND">> for a microphone
\* trigger and non-empty for an edge-sensor trigger; the list a tick holds
\* for the edge sensors that fired in its poll is non-empty.
C27_TriggeredSensorsRecorded ==
  /\ (ev.act = "sentry_loop" /\ ev.branch = "remote_activate")
       => current_triggered_sensors = <<>>
  /\ (ev.act = "sentry_loop" /\ ev.branch = "mic_enter")
       => current_triggered_sensors = <<"SOUND">>
  /\ (ev.act = "sentry_loop" /\ ev.branch = "sensor_enter")
       => current_triggered_sensors # <<>>
  /\ (ev.act = "sentry_loop" /\ ev.req # MODE_INTRUDER /\ ev.inp[1])
       => triggered_list(ev.inp[1]) # <<>>

\* C28: a sensor poll that raises is "no trigger" for its tick: the tick
\* completes and the mode is still SENTRY.
C28_PollErrorConfined ==
  (ev.act = "sentry_loop" /\ ev.req # MODE_INTRUDER /\ ~ev.inp[3])
    => (pc = "loop" /\ mode = MODE_SENTRY)

\* C29: a SENTRY tick that starts with a remote INTRUDER request pending
\* enters INTRUDER mode with the camera active, the classifier load
\* attempted, the no-threat counter at 0 and intruder_start_time at the time
\* of the tick; it consumes the request and leaves last_sensor_event_time as
\* it was.
C29_RemoteActivation ==
  [][(pc = "loop" /\ mode = MODE_SENTRY
        /\ remote_control_request = MODE_INTRUDER /\ ev'.act = "sentry_loop")
       => /\ mode' = MODE_INTRUDER
          /\ pc' = "loop"
          /\ ev'.branch = "remote_activate"
          /\ is_active' /\ camera' # None
          /\ model_loaded' \in {model_loaded, "loaded"}
          /\ no_threat_frame_count' = 0
          /\ intruder_start_time' = now
          /\ remote_control_request' = None
          /\ last_sensor_event_time' = last_sensor_event_time]_vars

\* a second remote activation, after an earlier episode
C29_Witness ==
  /\ ev.act = "sentry_loop"
  /\ ev.branch = "remote_activate"
  /\ mode = MODE_INTRUDER
  /\ intruder_start_time = now
  /\ now > StartTime
  /\ model_loaded = "loaded"
  /\ is_active
  /\ last_mode_event = "trigger"
  /\ no_threat_frame_count = 0

\* C30: the tick that leaves INTRUDER mode on the no-threat limit releases
\* the camera; the ticks that leave on the timeout or on a remote SENTRY
\* request leave the camera as it is; and when enter_sentry_mode returns the
\* classifier is not loaded and the camera is as the tick left it.
C30_ExitEffects ==
  [][ /\ (pc = "loop" /\ pc' = "enter_sentry" /\ ev'.exit = "limit")
           => (camera' = None /\ ~is_active' /\ mode' = MODE_SENTRY)
      /\ (pc = "loop" /\ pc' = "enter_sentry"
             /\ ev'.exit \in {"timeout", "deactivate"})
           => (camera' = camera /\ is_active' = is_active
                 /\ mode' = MODE_SENTRY)
      /\ (pc = "loop" /\ pc' = "enter_sentry")
           => ev'.exit \in {"limit", "timeout", "deactivate"}
      /\ (pc = "enter_sentry" /\ pc' \in {"loop", "crashed"})
           => (model_loaded' # "loaded" /\ camera' = camera
                 /\ is_active' = is_active) ]_vars

\* back in SENTRY mode after the no-threat limit: camera released,
\* classifier unloaded
C30_Witness ==
  /\ ev.act = "intruder_loop"
  /\ ev.exit = "limit"
  /\ pc = "loop"
  /\ mode = MODE_SENTRY
  /\ camera = None /\ ~is_active
  /\ model_loaded = "unloaded"

\* C37: between two iterations of the main loop no_threat_frame_count is in
\* 0 .. NO_THREAT_FRAME_LIMIT - 1; it is 0 after every entry into INTRUDER
\* mode and after every tick whose frame holds a qualifying threat; a tick
\* whose frame capture fails leaves it as it was.
C37_NoThreatCounterRange ==
  /\ [](pc = "loop" => (/\ no_threat_frame_count >= 0
                        /\ no_threat_frame_count < NO_THREAT_FRAME_LIMIT))
  /\ [][ /\ (mode = MODE_SENTRY /\ mode' = MODE_INTRUDER)
              => no_threat_frame_count' = 0
         /\ (pc = "loop" /\ mode = MODE_INTRUDER /\ ev'.act = "intruder_loop"
               /\ remote_control_request # MODE_SENTRY)
              => /\ (/\ camera = "open" /\ ev'.inp[1]
                     /\ model_loaded = "loaded"
                     /\ ev'.inp[2][1] \notin {None, "unknown"}
                     /\ ev'.inp[2][2] >= 50)
                      => no_threat_frame_count' = 0
                 /\ ~(camera = "open" /\ ev'.inp[1])
                      => no_threat_frame_count' = no_threat_frame_count ]_vars

\* one frame short of the limit, and the capture of the next frame failed
C37_Witness ==
  /\ pc = "loop"
  /\ mode = MODE_INTRUDER
  /\ no_threat_frame_count = NO_THREAT_FRAME_LIMIT - 1
  /\ ev.act = "intruder_loop"
  /\ ev.branch = "no_frame"

\* C38: a mode transition leaves last_alert_time, last_alert_threat and
\* same_threat_count as they were (a tick that decides on an alert and then
\* times out changes them by the decision only, which is not this case), so
\* the cap of two alerts per label and cooldown window holds across
\* episodes: an alert and the second alert after it are at least
\* ALERT_COOLDOWN apart, whatever episodes they belong to.
C38_TransitionsKeepCooldown ==
  /\ [][ /\ (mode' # mode /\ ev'.branch \notin {"alert", "suppressed"})
              => UNCHANGED <<last_alert_time, last_alert_threat,
                             same_threat_count>>
         /\ (pc = "enter_sentry" /\ pc' # "enter_sentry")
              => UNCHANGED <<last_alert_time, last_alert_threat,
                             same_threat_count>> ]_vars
  /\ [](\A i \in 1..Len(alert_log) :
          i + 2 <= Len(alert_log)
            => alert_log[i + 2][1] - alert_log[i][1] >= ALERT_COOLDOWN)

\* two alerts in two episodes within the cooldown window, and the third
\* detection of the label, in the second episode, suppressed
C38_Witness ==
  /\ ev.act = "intruder_loop"
  /\ ev.branch = "suppressed"
  /\ same_threat_count = 3
  /\ Len(alert_log) = 2
  /\ alert_threads = 2
  /\ alert_log[1][1] < intruder_start_time
  /\ intruder_start_time <= alert_log[2][1]
  /\ now - alert_log[1][1] < ALERT_COOLDOWN

\* C39: a SENTRY tick looks at the remote request, then the edge sensors,
\* then the microphone, and changes the mode at most once.  With an INTRUDER
\* request pending it enters as a remote activation whatever the sensors
\* read.  Otherwise a tick whose edge sensors fired completes, having
\* entered on the sensors, or having ignored them as debounced and gone on
\* to the microphone; a first edge-sensor trigger is accepted and recorded
\* as a sensor entry, not as SOUND, also when the sound is loud.
C39_TriggerOrder ==
  [][(pc = "loop" /\ mode = MODE_SENTRY /\ ev'.act = "sentry_loop")
       => /\ remote_control_request = MODE_INTRUDER
               => (ev'.branch = "remote_activate" /\ mode' = MODE_INTRUDER)
          /\ (remote_control_request # MODE_INTRUDER /\ ev'.inp[3]
                /\ ev'.inp[1])
               => /\ pc' = "loop"
                  /\ ev'.branch \in {"sensor_enter", "debounced", "mic_enter"}
                  /\ last_sensor_event_time = 0
                       => (/\ ev'.branch = "sensor_enter"
                           /\ mode' = MODE_INTRUDER
                           /\ current_triggered_sensors' # <<"SOUND">>)]_vars

\* C32: the SENTRY tick decides on the microphone from the snapshot the
\* sampler thread published: a tick that gets as far as the microphone takes
\* the loud branch exactly when the snapshot's current level is above
\* MIC_THRESHOLD.
C32_MicDecisionFromSnapshot ==
  (/\ ev.act = "sentry_loop"
   /\ ev.req # MODE_INTRUDER
   /\ ev.inp[3] /\ ~ev.inp[1]
   /\ mic_is_active
   /\ ev.branch # "no_STREAM_TIMEOUT")
    => (ev.branch # "none" <=> current_level > MIC_THRESHOLD)

\* C33: the trigger-source mappings send gpio to pir and every other value,
\* listed or not, to itself; the label mapping sends person, car, truck,
\* motorcycle, bus, animal and unknown to themselves and every other label
\* to unknown; the two trigger-source mappings agree.
C33_WireMappings ==
  /\ "status" \in wire.called
       => wire.status = IF wire.trigger_type = "gpio" THEN "pir"
                        ELSE wire.trigger_type
  /\ "alert" \in wire.called
       => /\ wire.alert[1] =
               IF wire.threat \in {"person", "car", "truck", "motorcycle",
                                   "bus", "animal", "unknown"}
                 THEN wire.threat ELSE "unknown"
          /\ wire.alert[2] = IF wire.trigger_type = "gpio" THEN "pir"
                             ELSE wire.trigger_type
  /\ wire.called = {"status", "alert"} => wire.status = wire.alert[2]

\* both mappings applied to gpio and to a label outside the table
C33_Witness ==
  /\ wire.called = {"status", "alert"}
  /\ wire.trigger_type = "gpio"
  /\ wire.threat = "bicycle"
  /\ wire.status = "pir"
  /\ wire.alert = <<"unknown", "pir">>

\* C34: a request written while a tick is between testing the mailbox and
\* clearing it is not erased unapplied: when the tick has cleared, that
\* request is pending, or the mode is the one it asked for.
C34_NoRequestErased ==
  [][(pc \in {"sentry_remote", "intruder_remote"} /\ pc' # pc
        /\ fresh_request # None)
       => \/ remote_control_request' = fresh_request
          \/ mode' = fresh_request]_vars

\* C36: with the main loop iterating, alert threads ending and time
\* passing, every INTRUDER episode returns to SENTRY mode.
C36_EpisodeEnds == (mode = MODE_INTRUDER) ~> (mode = MODE_SENTRY)

====
